---- MODULE Spec2Model ----
(***************************************************************************)
(* Artribune MCP server: the tri-query tool (tools/tri_query_tools.py) and *)
(* its smart chunker.  Strings are sequences of one-character strings, so  *)
(* that len(), slicing, split and join are computed as Python computes     *)
(* them.                                                                   *)
(***************************************************************************)
EXTENDS Integers, Sequences, FiniteSets, TLC

\* ---------------------------------------------------------------- bounds
\* Texts given to the chunker are concatenations of at most MaxTokens tokens.
MaxTokens == 4
\* Budgets given to the chunker range over 0..MaxBudget.
MaxBudget == 12
\* max_results ranges over 0..MaxResults.
MaxResults == 2
LongTextPairs == 52
MaxCreated == 2
\* Coroutines that use the ArtribuneDB instance at the same time.
MaxTasks == 2
\* Connections asyncpg.connect creates in one behaviour.
MaxConns == 3
\* Articles search_articles returns to one profile call.
MaxArticles == 2

\* ------------------------------------------------------- Python strings
\* s[:n] for any integer n (a negative n counts from the end).
PySliceTo(s, n) ==
  IF n >= 0
    THEN SubSeq(s, 1, IF n < Len(s) THEN n ELSE Len(s))
    ELSE SubSeq(s, 1, IF Len(s) + n > 0 THEN Len(s) + n ELSE 0)

\* s[-k:] for any integer k: the last k characters for k > 0, the whole
\* string for k = 0 (s[-0:] is s[0:]), s[|k|:] for k < 0.
PySliceLast(s, k) ==
  IF k < 0 THEN SubSeq(s, (0 - k) + 1, Len(s))
  ELSE IF k = 0 \/ k >= Len(s) THEN s
  ELSE SubSeq(s, Len(s) - k + 1, Len(s))

\* int(n * 0.6) and int(n * 0.4): truncation toward zero.
IntTimes(n, tenths) ==
  IF n >= 0 THEN (n * tenths) \div 10 ELSE 0 - (((0 - n) * tenths) \div 10)

\* sub in s
StartsAt(s, sub, i) ==
  /\ i + Len(sub) - 1 <= Len(s)
  /\ \A j \in 1..Len(sub) : s[i + j - 1] = sub[j]

Contains(s, sub) == \E i \in 1..(Len(s) - Len(sub) + 1) : StartsAt(s, sub, i)

UpperLetters == <<"A","B","C","D","E","F","G","H","I","J","K","L","M","N","O","P","Q","R","S","T","U","V","W","X","Y","Z">>
LowerLetters == <<"a","b","c","d","e","f","g","h","i","j","k","l","m","n","o","p","q","r","s","t","u","v","w","x","y","z">>

\* str.lower() on one character
LowerChar(c) ==
  IF \E i \in 1..26 : UpperLetters[i] = c
    THEN LowerLetters[CHOOSE i \in 1..26 : UpperLetters[i] = c]
    ELSE c

\* str.lower()
RECURSIVE Lower(_)
Lower(s) ==
  IF Len(s) = 0 THEN <<>>
  ELSE IF Len(s) = 1 THEN << LowerChar(s[1]) >>
  ELSE LET half == Len(s) \div 2
       IN  Lower(SubSeq(s, 1, half)) \o Lower(SubSeq(s, half + 1, Len(s)))

Delimiter == <<".", " ">>
Ellipsis == <<".", ".", ".">>

\* text.split('. '): cut at every occurrence found scanning left to right.
RECURSIVE SplitFrom(_, _, _)
SplitFrom(s, i, start) ==
  LET found == { j \in i..(Len(s) - 1) : StartsAt(s, Delimiter, j) }
  IN  IF found = {} THEN << SubSeq(s, start, Len(s)) >>
      ELSE LET j == CHOOSE j \in found : \A k \in found : j <= k
           IN  << SubSeq(s, start, j - 1) >> \o SplitFrom(s, j + 2, j + 2)

Split(text) == SplitFrom(text, 1, 1)

\* '. '.join(parts)
RECURSIVE Join(_)
Join(parts) ==
  IF Len(parts) = 0 THEN <<>>
  ELSE IF Len(parts) = 1 THEN parts[1]
  ELSE parts[1] \o Delimiter \o Join(Tail(parts))

\* ------------------------------------------------------------ _chunk_text
art_keywords ==
    <<
       <<"m","o","s","t","r","a">>,
       <<"e","x","h","i","b","i","t","i","o","n">>,
       <<"g","a","l","l","e","r","i","a">>,
       <<"m","u","s","e","o">>,
       <<"b","i","e","n","n","a","l","e">>,
       <<"t","r","i","e","n","n","a","l","e">>,
       <<"a","r","t","i","s","t","a">>,
       <<"a","r","t","i","s","t">>,
       <<"c","u","r","a","t","o","r","e">>,
       <<"c","u","r","a","t","o","r">>,
       <<"c","r","i","t","i","c","o">>,
       <<"p","a","l","a","z","z","o">>,
       <<"f","o","n","d","a","z","i","o","n","e">>,
       <<"c","e","n","t","r","o">>,
       <<"s","p","a","z","i","o">>,
       <<"g","e","n","n","a","i","o">>,
       <<"f","e","b","b","r","a","i","o">>,
       <<"m","a","r","z","o">>,
       <<"a","p","r","i","l","e">>,
       <<"m","a","g","g","i","o">>,
       <<"g","i","u","g","n","o">>,
       <<"l","u","g","l","i","o">>,
       <<"a","g","o","s","t","o">>,
       <<"s","e","t","t","e","m","b","r","e">>,
       <<"o","t","t","o","b","r","e">>,
       <<"n","o","v","e","m","b","r","e">>,
       <<"d","i","c","e","m","b","r","e">>,
       <<"2","0","2","0">>,
       <<"2","0","2","1">>,
       <<"2","0","2","2">>,
       <<"2","0","2","3">>,
       <<"2","0","2","4">>,
       <<"2","0","2","5">>
    >>

IsImportant(sentence) ==
  LET lowered == Lower(sentence)
  IN  \E k \in 1..Len(art_keywords) : Contains(lowered, art_keywords[k])

\* Latest salient sentence first.
important_sentences_reversed(sentences) ==
  LET kept == SelectSeq(sentences, IsImportant)
  IN  [i \in 1..Len(kept) |-> kept[Len(kept) + 1 - i]]

important_sentences(sentences) == SelectSeq(sentences, IsImportant)

NotImportant(sentence) == ~IsImportant(sentence)

regular_sentences(sentences) == SelectSeq(sentences, NotImportant)

FitsBudgetStrict(text, chunk_size) == Len(text) < chunk_size

FitsBudget(text, chunk_size) == Len(text) <= chunk_size

SimpleChunk(text, chunk_size) ==
  LET first_part == IntTimes(chunk_size, 6)
      last_part == IntTimes(chunk_size, 4)
  IN  PySliceTo(text, first_part) \o Ellipsis \o PySliceLast(text, last_part)

ImportantOverflowsSep(important_text, chunk_size) ==
  Len(important_text) + 2 >= chunk_size

ImportantOverflows(important_text, chunk_size) ==
  Len(important_text) >= chunk_size

RemainingSpace(important_text, chunk_size) ==
  chunk_size - Len(important_text) - 10

SmartChunk(text, chunk_size) ==
  LET sentences == Split(text)
      important_text == Join(important_sentences(sentences))
      regular_text == Join(regular_sentences(sentences))
      remaining_space == RemainingSpace(important_text, chunk_size)
  IN  IF ImportantOverflows(important_text, chunk_size)
        THEN PySliceTo(important_text, chunk_size - 3) \o Ellipsis
      ELSE IF Len(regular_text) <= remaining_space
        THEN important_text \o Delimiter \o regular_text
      ELSE important_text \o Delimiter
             \o PySliceTo(regular_text, remaining_space) \o Ellipsis

_chunk_text(text, chunk_size, smart_chunking) ==
  IF FitsBudget(text, chunk_size) THEN text
  ELSE IF ~smart_chunking THEN SimpleChunk(text, chunk_size)
  ELSE SmartChunk(text, chunk_size)

\* ------------------------------------------------------------ formatting
Digits == <<"0","1","2","3","4","5","6","7","8","9">>

\* str(n) for an integer n
RECURSIVE NatToStr(_)
NatToStr(n) ==
  IF n < 10 THEN << Digits[n + 1] >>
  ELSE NatToStr(n \div 10) \o << Digits[(n % 10) + 1] >>

IntToStr(n) == IF n < 0 THEN <<"-">> \o NatToStr(0 - n) ELSE NatToStr(n)

\* sum(len(r) for r in results)
RECURSIVE SumLen(_)
SumLen(results) ==
  IF Len(results) = 0 THEN 0 ELSE Len(Head(results)) + SumLen(Tail(results))

\* query.split(): the whitespace-delimited tokens of the query
IsSpace(c) == c = " "

RECURSIVE WsSplitFrom(_, _, _)
WsSplitFrom(s, i, cur) ==
  IF i > Len(s) THEN (IF cur = <<>> THEN <<>> ELSE << cur >>)
  ELSE IF IsSpace(s[i])
    THEN (IF cur = <<>> THEN <<>> ELSE << cur >>) \o WsSplitFrom(s, i + 1, <<>>)
    ELSE WsSplitFrom(s, i + 1, Append(cur, s[i]))

WsSplit(query) == WsSplitFrom(query, 1, <<>>)

\* dict.get(key, default)
Get(d, key, default) == IF key \in DOMAIN d THEN d[key] ELSE default

None == [none |-> TRUE]

HasError(r) == "error" \in DOMAIN r

\* --------------------------------------------------- _semantic_analysis
\* The prompt is the query between two fixed pieces of text.
PromptHeadLen == 76
PromptTailLen == 183

\* The prompt is fixed text around the query.
SemanticPrompt(query) == [query |-> query]

PromptLen(query) == PromptHeadLen + Len(query) + PromptTailLen

SemanticErrorPromptSpent(e) ==
  [error |-> e, tokens_used |-> PromptHeadLen + PromptTailLen]

SemanticError(e) == [error |-> e, tokens_used |-> 0]

SemanticTokensNoPrompt(query, analysis_text) == Len(analysis_text)

SemanticTokens(query, analysis_text) == PromptLen(query) + Len(analysis_text)

\* gen: what generate_content does ("ok" or "raise"); gen_text: response.text
_semantic_analysis(query, chunk_size, gen, gen_text) ==
  IF gen = "raise" THEN SemanticError("generate_content failed")
  ELSE LET analysis_text == _chunk_text(gen_text, chunk_size, TRUE)
       IN  IF query # <<>> /\ WsSplit(query) = <<>>
             THEN SemanticError("list index out of range")
             ELSE [ entities |-> <<>>,
                    query_type |-> "ricerca",
                    focus |-> IF query # <<>> THEN WsSplit(query)[1] ELSE <<>>,
                    analysis |-> analysis_text,
                    tokens_used |-> SemanticTokens(query, analysis_text) ]

\* ------------------------------------------------------ _setup_connections
\* drv, pg: the tool's neo4j_driver and pg_conn ("None" or "open");
\* neo4j, rel: where the graph store and the relational store fail, if at all.
_setup_connections(drv, pg, neo4j, rel) ==
  LET need_drv == drv = "None"
      drv_fail == need_drv /\ neo4j = "driver"
      need_pg == ~drv_fail /\ pg = "None"
      pg_fail == need_pg /\ rel = "connect"
  IN  [ neo4j_driver |-> IF need_drv /\ ~drv_fail THEN "open" ELSE drv,
        pg_conn |-> IF need_pg /\ ~pg_fail THEN "open" ELSE pg,
        calls |-> (IF need_drv THEN {"GraphDatabase.driver"} ELSE {})
                    \cup (IF need_pg THEN {"psycopg2.connect"} ELSE {}),
        raised |-> drv_fail \/ pg_fail ]

\* ------------------------------------------------------- _graph_analysis
artist_info(record) ==
  record.artist1 \o <<" ","U+2194"," ">> \o record.artist2 \o <<" ", "(">>
    \o IntToStr(record.mentions1) \o <<"+">> \o IntToStr(record.mentions2)
    \o <<" ","m","e","n","z","i","o","n","i",")">>

GraphError(e) == [error |-> e, char_used |-> 0]

GraphItemBudget(chunk_size, max_results) == chunk_size \div max_results

RECURSIVE GraphResults(_, _, _)
GraphResults(records, chunk_size, max_results) ==
  IF Len(records) = 0 THEN <<>>
  ELSE << _chunk_text(artist_info(Head(records)),
                     GraphItemBudget(chunk_size, max_results), TRUE) >>
         \o GraphResults(Tail(records), chunk_size, max_results)

GraphOk(results) ==
  [ collaborations |-> results,
    total_found |-> Len(results),
    query_executed |-> "cypher_query[:100]...",
    char_used |-> SumLen(results) ]

\* [raised, result, setup]: raised when the exception leaves _graph_analysis.
_graph_analysis(max_results, chunk_size, drv, pg, neo4j, rel, records) ==
  LET setup == _setup_connections(drv, pg, neo4j, rel)
  IN  IF setup.raised
        THEN [raised |-> TRUE, result |-> None, setup |-> setup,
              calls |-> setup.calls]
      ELSE IF neo4j = "session"
        THEN [raised |-> TRUE, result |-> None, setup |-> setup,
              calls |-> setup.calls \cup {"driver.session"}]
      ELSE LET calls == setup.calls \cup {"driver.session", "session.run"}
           IN  IF neo4j = "run"
                 THEN [raised |-> FALSE, result |-> GraphError("query failed"),
                       setup |-> setup, calls |-> calls]
               ELSE IF Len(records) > 0 /\ max_results = 0
                 THEN [raised |-> FALSE,
                       result |-> GraphError("integer division or modulo by zero"),
                       setup |-> setup, calls |-> calls]
               ELSE [raised |-> FALSE,
                     result |-> GraphOk(GraphResults(records, chunk_size, max_results)),
                     setup |-> setup, calls |-> calls]

\* The Cypher text depends on the request through its LIMIT only.
CypherQuery(max_results) == [limit |-> max_results]

\* ---------------------------------------------------- _temporal_analysis
HoursPerDay == 24

\* (now - timedelta(days=365)).strftime('%Y-%m-%d'): the calendar day, 365
\* days before the instant `now` (in hours), without the time of day.
DayBefore365(now) == [day |-> (now - 365 * HoursPerDay) \div HoursPerDay]

YearStart(year) == [year |-> year, month |-> 1, day |-> 1]

\* date_filter: published_date >= lower AND published_date < upper, or
\* published_date IS NOT NULL.
DateFilter(date_range, now) ==
  IF date_range = "last_year"
    THEN [lower |-> DayBefore365(now)]
  ELSE IF date_range = "2020-2024"
    THEN [lower |-> YearStart(2020), upper |-> YearStart(2025)]
  ELSE [not_null |-> TRUE]

TemporalQuery(date_range, max_results, now) ==
  [date_filter |-> DateFilter(date_range, now), limit |-> max_results]

year_info(row) ==
  IntToStr(row.year) \o <<":", " ">> \o IntToStr(row.articles) \o <<" ","a","r","t","i","c","o","l","i",","," ">>
    \o IntToStr(row.events) \o <<" ","e","v","e","n","t","i">>

TemporalError(e) == [error |-> e, char_used |-> 0]

RECURSIVE TemporalResults(_)
TemporalResults(rows) ==
  IF Len(rows) = 0 THEN <<>>
  ELSE << year_info(Head(rows)) >> \o TemporalResults(Tail(rows))

TemporalOk(results, date_range) ==
  [ timeline |-> results,
    date_range |-> date_range,
    total_years |-> Len(results),
    char_used |-> SumLen(results) ]

_temporal_analysis(date_range, drv, pg, neo4j, rel, rows) ==
  LET setup == _setup_connections(drv, pg, neo4j, rel)
  IN  IF setup.raised
        THEN [raised |-> TRUE, result |-> None, setup |-> setup,
              calls |-> setup.calls]
      ELSE IF rel = "cursor"
        THEN [raised |-> TRUE, result |-> None, setup |-> setup,
              calls |-> setup.calls \cup {"pg_conn.cursor"}]
      ELSE LET calls == setup.calls \cup {"pg_conn.cursor", "cur.execute"}
           IN  IF rel = "execute"
                 THEN [raised |-> FALSE, result |-> TemporalError("query failed"),
                       setup |-> setup, calls |-> calls]
               ELSE [raised |-> FALSE,
                     result |-> TemporalOk(TemporalResults(rows), date_range),
                     setup |-> setup, calls |-> calls]

\* ------------------------------------------------------------- execute
SemanticLabel == <<"U+1F9E0"," ","S","e","m","a","n","t","i","c","o",":"," ">>

GraphLabel == <<"U+1F578","U+FE0F"," ","N","e","t","w","o","r","k",":"," ">>

TemporalLabel == <<"U+1F4CA"," ","T","e","m","p","o","r","a","l","e",":"," ">>

\* Shows the whole analysis.
SemanticFragmentUncut(semantic_result) ==
  SemanticLabel \o Get(semantic_result, "analysis", <<"N","/","A">>)

SemanticFragment(semantic_result) ==
  SemanticLabel \o PySliceTo(Get(semantic_result, "analysis", <<"N","/","A">>), 100)

GraphFragment(graph_result) ==
  GraphLabel \o IntToStr(Len(graph_result.collaborations)) \o <<" ","c","o","l","l","a","b","o","r","a","z","i","o","n","i"," ","t","r","o","v","a","t","e">>

TemporalFragment(temporal_result) ==
  TemporalLabel \o IntToStr(Len(temporal_result.timeline)) \o <<" ","a","n","n","i"," ","a","n","a","l","i","z","z","a","t","i">>

SummaryParts(semantic_result, graph_result, temporal_result) ==
  (IF semantic_result # None
     THEN << SemanticFragment(semantic_result) >> ELSE <<>>)
  \o (IF graph_result # None /\ Get(graph_result, "collaborations", <<>>) # <<>>
        THEN << GraphFragment(graph_result) >> ELSE <<>>)
  \o (IF temporal_result # None /\ Get(temporal_result, "timeline", <<>>) # <<>>
        THEN << TemporalFragment(temporal_result) >> ELSE <<>>)

\* " | ".join(parts)
RECURSIVE JoinBar(_)
JoinBar(parts) ==
  IF Len(parts) = 0 THEN <<>>
  ELSE IF Len(parts) = 1 THEN parts[1]
  ELSE parts[1] \o <<" ", "|", " ">> \o JoinBar(Tail(parts))

NoSystem == <<"N","e","s","s","u","n"," ","s","i","s","t","e","m","a"," ","a","t","t","i","v","a","t","o">>

CombinedSummary(parts) == IF parts # <<>> THEN JoinBar(parts) ELSE NoSystem

\* context_usage[name] = value
DictSet(d, key, value) ==
  [k \in (DOMAIN d) \cup {key} |-> IF k = key THEN value ELSE d[k]]

EmptyDict == [k \in {} |-> 0]

\* sum(context_usage.values())
RECURSIVE SumValues(_, _)
SumValues(d, keys) ==
  IF keys = {} THEN 0
  ELSE LET k == CHOOSE x \in keys : TRUE
       IN  d[k] + SumValues(d, keys \ {k})

\* Runs graph whenever any store is asked for.
AdapterEnabledAnyStore(p, name) ==
  IF name = "semantic" THEN p.use_semantic
  ELSE IF name = "graph" THEN p.use_graph \/ p.use_dates
  ELSE p.use_dates

\* Skips temporal when graph ran.
AdapterEnabledElif(p, name) ==
  IF name = "semantic" THEN p.use_semantic
  ELSE IF name = "graph" THEN p.use_graph
  ELSE p.use_dates /\ ~p.use_graph

\* if params.use_semantic / if params.use_graph / if params.use_dates
AdapterEnabled(p, name) ==
  IF name = "semantic" THEN p.use_semantic
  ELSE IF name = "graph" THEN p.use_graph
  ELSE p.use_dates

\* Echoes the chunking flag of the request.
ChunkingAppliedEcho(p, total_chars) ==
  [ chunk_size |-> p.chunk_size,
    max_results |-> p.max_results,
    smart_chunking |-> p.smart_chunking,
    total_chars |-> total_chars ]

\* "chunking_applied": {...}
ChunkingApplied(p, total_chars) ==
  [ chunk_size |-> p.chunk_size,
    max_results |-> p.max_results,
    total_chars |-> total_chars ]

SystemsAppendIfOk(systems_used, name, result) ==
  IF HasError(result) THEN systems_used ELSE Append(systems_used, name)

SystemsAppend(systems_used, name, result) == Append(systems_used, name)

\* ------------------------------------------------- chunker: inputs, state
Tokens ==
  { <<"2","0","2","0">>, <<"M","u","s","e","o">>, <<"a","b">>,
    <<".", " ">>, <<".">> }

RECURSIVE TextsOf(_)
TextsOf(n) ==
  IF n = 0 THEN { <<>> }
  ELSE LET shorter == TextsOf(n - 1)
       IN  shorter \cup { t \o k : t \in shorter, k \in Tokens }

ChunkTexts == TextsOf(MaxTokens)

\* ------------------------------------------- tri-query: inputs, state
Queries == { <<>>, <<" ">>, <<"B","o"," ","2","0","2","4">> }

ChunkSizes == {0, 6, 40, 130}

MaxResultsValues == 0..MaxResults

DateRanges == {"all", "last_year", "2020-2024", "2019-2021", "recent"}

OutputFormats == {"summary"}

SmartChunkingValues == {TRUE}

\* Requests with the default date_range.
DefaultRangeParams ==
  [ query : Queries,
    use_semantic : BOOLEAN, use_graph : BOOLEAN, use_dates : BOOLEAN,
    chunk_size : ChunkSizes, max_results : MaxResultsValues,
    date_range : {"all"}, smart_chunking : SmartChunkingValues,
    output_format : OutputFormats ]

\* Requests to the temporal adapter with every other date_range.
DatedParams ==
  [ query : {<<"B","o"," ","2","0","2","4">>},
    use_semantic : {FALSE}, use_graph : BOOLEAN, use_dates : {TRUE},
    chunk_size : {40}, max_results : 1..MaxResults,
    date_range : DateRanges \ {"all"}, smart_chunking : SmartChunkingValues,
    output_format : OutputFormats ]

AllOutputFormats == {"summary", "detailed", "chunks"}

\* Requests to the two chunking adapters with every other pair of
\* smart_chunking and output_format.
FormatParams ==
  { p \in [ query : {<<"B","o"," ","2","0","2","4">>},
            use_semantic : {TRUE}, use_graph : {TRUE}, use_dates : {FALSE},
            chunk_size : {6}, max_results : {1},
            date_range : {"all"}, smart_chunking : BOOLEAN,
            output_format : AllOutputFormats ] :
      ~(p.smart_chunking /\ p.output_format = "summary") }

TriQueryParams == DefaultRangeParams \cup DatedParams \cup FormatParams

\* What the generative model answers.
RECURSIVE Repeat(_, _)
Repeat(s, n) ==
  IF n = 0 THEN <<>>
  ELSE IF n % 2 = 0 THEN LET half == Repeat(s, n \div 2) IN half \o half
  ELSE s \o Repeat(s, n - 1)

\* An answer longer than the part of it the summary shows.
LongText == Repeat(<<"a","b">>, LongTextPairs)

GenTexts == { <<"a","b">>, <<"M","u","s","e","o","."," ","a","b","."," ","2","0","2","0","."," ","a","b">>, LongText }

ArtistNames == << <<"B","o">>, <<"A","l">>, <<"C","y">> >>

\* The i-th edge record of the graph store, most mentioned first.
GraphRecord(i) ==
  [ artist1 |-> ArtistNames[(i % 3) + 1],
    artist2 |-> ArtistNames[((i + 1) % 3) + 1],
    mentions1 |-> 1000 - 100 * i,
    mentions2 |-> 200 - 10 * i ]

\* The i-th row of the yearly aggregation, latest year first.
TemporalRow(i) == [ year |-> 2025 - i, articles |-> 120 - 30 * i, events |-> i - 1 ]

\* A store answers a query with LIMIT n with at most n rows.
RowCounts(max_results) == 0..max_results

\* The collaborators of one request: what each does when called.  A part
\* that the request cannot reach is fixed, not enumerated.
GenOutcomes(p) ==
  IF p.use_semantic
    THEN { [gen |-> "raise", gen_text |-> <<>>] }
           \cup { [gen |-> "ok", gen_text |-> t] : t \in GenTexts }
    ELSE { [gen |-> "ok", gen_text |-> <<>>] }

GraphOutcomes(p) ==
  IF p.use_graph
    THEN { [neo4j |-> f, graph_n |-> 0] : f \in {"driver", "session", "run"} }
           \cup { [neo4j |-> "ok", graph_n |-> n] : n \in RowCounts(p.max_results) }
    ELSE IF p.use_dates
      THEN { [neo4j |-> f, graph_n |-> 0] : f \in {"ok", "driver"} }
    ELSE { [neo4j |-> "ok", graph_n |-> 0] }

RelOutcomes(p) ==
  (IF p.use_dates
     THEN { [rel |-> f, temporal_n |-> 0] : f \in {"cursor", "execute"} }
            \cup { [rel |-> "ok", temporal_n |-> n] : n \in RowCounts(p.max_results) }
     ELSE { [rel |-> "ok", temporal_n |-> 0] })
  \cup (IF p.use_dates \/ p.use_graph
          THEN { [rel |-> "connect", temporal_n |-> 0] } ELSE {})

\* datetime.now() in hours: two instants of one day and one of the next.
Nows == {498225, 498226, 498249}

\* The clock is read only for date_range "last_year".
ClockReadings(p) ==
  IF p.use_dates /\ p.date_range = "last_year"
    THEN Nows ELSE {CHOOSE n \in Nows : \A k \in Nows : n <= k}

Envs(p) ==
  { [ gen |-> g.gen, gen_text |-> g.gen_text,
      neo4j |-> n.neo4j, graph_n |-> n.graph_n,
      rel |-> r.rel, temporal_n |-> r.temporal_n, now |-> t ] :
      g \in GenOutcomes(p), n \in GraphOutcomes(p), r \in RelOutcomes(p),
      t \in ClockReadings(p) }

\* The requests of a process serving one after another.
ProcessParams ==
  [ query : {<<"B","o"," ","2","0","2","4">>},
    use_semantic : BOOLEAN, use_graph : BOOLEAN, use_dates : BOOLEAN,
    chunk_size : {40}, max_results : {1},
    date_range : {"all"}, smart_chunking : SmartChunkingValues,
    output_format : OutputFormats ]

\* Their collaborators answer, fail to connect, or never answer a call
\* (none of the calls is given a timeout).
ProcessEnvs(p) ==
  { [ gen |-> g, gen_text |-> <<"a","b">>,
      neo4j |-> n, graph_n |-> 1,
      rel |-> r, temporal_n |-> 1,
      now |-> CHOOSE t \in Nows : \A k \in Nows : t <= k ] :
      g \in (IF p.use_semantic THEN {"ok", "hang"} ELSE {"ok"}),
      n \in (IF p.use_graph THEN {"ok", "hang"} ELSE {"ok"}),
      r \in (IF p.use_dates THEN {"ok", "hang"} ELSE {"ok"})
             \cup (IF p.use_graph \/ p.use_dates THEN {"connect"} ELSE {}) }

\* The collaborator never answers the call, and the call is made.
NeverAnswers(outcome, call, made) == outcome = "hang" /\ call \in made

\* The connection counts after a _setup_connections that left `setup`.
Opened(count, drv, pg, setup) ==
  [ driver |-> count.driver
                 + (IF drv = "None" /\ setup.neo4j_driver = "open" THEN 1 ELSE 0),
    pg |-> count.pg
             + (IF pg = "None" /\ setup.pg_conn = "open" THEN 1 ELSE 0) ]

Arrivals ==
  UNION { { [params |-> p, env |-> e] : e \in Envs(p) } : p \in TriQueryParams }

ProcessArrivals ==
  UNION { { [params |-> p, env |-> e] : e \in ProcessEnvs(p) } : p \in ProcessParams }

GraphRecords(n) == [i \in 1..n |-> GraphRecord(i)]

TemporalRows(n) == [i \in 1..n |-> TemporalRow(i)]

VARIABLES
  ctext, cbudget, csmart, cout, cpc,    \* one call of _chunk_text
  pc,                \* where the request is: idle, semantic, graph, temporal,
                     \* summary, returned, raised
  params, env,       \* the request and its collaborators
  neo4j_driver, pg_conn,                \* the tool's connections
  semantic_result, graph_result, temporal_result,
  systems_used, context_usage,
  calls,             \* the collaborator calls made for this request
  queries,           \* the query sent to each collaborator for this request
  created,           \* connections opened since the process started
  result,            \* what execute() returned
  http_status        \* what mcp_tri_query answered last

cvars == <<ctext, cbudget, csmart, cout, cpc>>

tvars == <<pc, params, env, neo4j_driver, pg_conn, semantic_result,
           graph_result, temporal_result, systems_used, context_usage,
           calls, queries, created, result, http_status>>

VARIABLES
  e_pc, e_kind, e_name, e_articles, e_response   \* one entity-profile call

VARIABLES
  db_connection,     \* ArtribuneDB.connection: 0 for None, or a connection
  db_conns,          \* the connections created so far: "open" or "closed"
  db_tasks           \* the coroutines using the ArtribuneDB instance

VARIABLES
  a_pc, a_credentials, a_env, a_outcome          \* one verify_api_key call

evars == <<e_pc, e_kind, e_name, e_articles, e_response>>

dvars == <<db_connection, db_conns, db_tasks>>

avars == <<a_pc, a_credentials, a_env, a_outcome>>

\* What the tri-query and the chunker leave alone.
xvars == <<evars, dvars, avars>>

\* What the operations of ArtribuneDB leave alone.
dframe == <<cvars, tvars, evars, avars>>

vars == <<cvars, tvars, xvars>>

NoParams == [none |-> TRUE]

NoQueries == [semantic |-> None, graph |-> None, temporal |-> None]

TriInit ==
  /\ pc = "idle"
  /\ params = NoParams
  /\ env = None
  /\ neo4j_driver = "None"
  /\ pg_conn = "None"
  /\ semantic_result = None
  /\ graph_result = None
  /\ temporal_result = None
  /\ systems_used = <<>>
  /\ context_usage = EmptyDict
  /\ calls = {}
  /\ queries = NoQueries
  /\ created = [driver |-> 0, pg |-> 0]
  /\ result = None
  /\ http_status = 0

\* db = ArtribuneDB(): self.connection = None, and nothing is using it.
DbTasks == 1..MaxTasks

DbOps == {"connect", "get_article", "search_articles", "get_recent_articles"}

TaskIdle == [pc |-> "idle", op |-> "connect", conn |-> 0]

DbIdle ==
  /\ db_connection = 0
  /\ db_conns = <<>>
  /\ db_tasks = [t \in DbTasks |-> TaskIdle]

ProfileIdle ==
  /\ e_pc = "idle"
  /\ e_kind = "artist"
  /\ e_name = <<>>
  /\ e_articles = <<>>
  /\ e_response = None

AuthIdle ==
  /\ a_pc = "idle"
  /\ a_credentials = <<>>
  /\ a_env = <<>>
  /\ a_outcome = None

ChunkIdle ==
  /\ ctext = <<>>
  /\ cbudget = 0
  /\ csmart = TRUE
  /\ cout = <<>>
  /\ cpc = "idle"

\* --------------------------------------------------- chunker: one call
InitChunk ==
  /\ ctext \in ChunkTexts
  /\ cbudget \in 0..MaxBudget
  /\ csmart \in BOOLEAN
  /\ cout = <<>>
  /\ cpc = "call"
  /\ TriInit
  /\ ProfileIdle /\ DbIdle /\ AuthIdle

ChunkCall ==
  /\ cpc = "call"
  /\ cout' = _chunk_text(ctext, cbudget, csmart)
  /\ cpc' = "done"
  /\ UNCHANGED <<ctext, cbudget, csmart>>
  /\ UNCHANGED tvars
  /\ UNCHANGED xvars

NextChunk == ChunkCall

SpecChunk == InitChunk /\ [][NextChunk]_vars

\* ------------------------------------------------ tri-query: one request
Init == ChunkIdle /\ TriInit /\ ProfileIdle /\ DbIdle /\ AuthIdle

\* mcp_tri_query builds a new tool and calls execute(params).  arrivals:
\* the requests, each with what its collaborators do; cap: the process has
\* opened fewer than cap connections of each kind so far.
RequestOf(arrivals, cap) ==
  /\ pc = "idle"
  /\ created.driver < cap
  /\ created.pg < cap
  /\ \E a \in arrivals :
       /\ params' = a.params
       /\ env' = a.env
  /\ neo4j_driver' = "None"
  /\ pg_conn' = "None"
  /\ semantic_result' = None
  /\ graph_result' = None
  /\ temporal_result' = None
  /\ systems_used' = <<>>
  /\ context_usage' = EmptyDict
  /\ calls' = {}
  /\ queries' = NoQueries
  /\ result' = None
  /\ http_status' = 0
  /\ pc' = "semantic"
  /\ UNCHANGED created
  /\ UNCHANGED cvars
  /\ UNCHANGED xvars

\* Any request, on a process that has opened no connection yet.
Request == RequestOf(Arrivals, 1)

\* One request after another on the same process.
ProcessRequest == RequestOf(ProcessArrivals, MaxCreated)

\* STEP 1
SemanticStep ==
  /\ pc = "semantic"
  /\ IF AdapterEnabled(params, "semantic")
       THEN LET r == _semantic_analysis(params.query, params.chunk_size,
                                       env.gen, env.gen_text)
            IN  /\ calls' = calls \cup {"generate_content"}
                /\ queries' = [queries EXCEPT !.semantic = SemanticPrompt(params.query)]
                /\ IF NeverAnswers(env.gen, "generate_content", {"generate_content"})
                     THEN /\ pc' = "blocked"
                          /\ UNCHANGED <<semantic_result, systems_used,
                                         context_usage>>
                     ELSE /\ pc' = "graph"
                          /\ semantic_result' = r
                          /\ systems_used' =
                               SystemsAppend(systems_used, "semantic", r)
                          /\ context_usage' =
                               DictSet(context_usage, "semantic",
                                       Get(r, "tokens_used", 0))
       ELSE /\ pc' = "graph"
            /\ UNCHANGED <<semantic_result, systems_used, context_usage, calls,
                           queries>>
  /\ UNCHANGED <<params, env, neo4j_driver, pg_conn, graph_result,
                 temporal_result, created, result, http_status>>
  /\ UNCHANGED cvars
  /\ UNCHANGED xvars

\* STEP 2
GraphStep ==
  /\ pc = "graph"
  /\ IF AdapterEnabled(params, "graph")
       THEN LET g == _graph_analysis(params.max_results, params.chunk_size,
                                    neo4j_driver, pg_conn, env.neo4j, env.rel,
                                    GraphRecords(env.graph_n))
            IN  /\ neo4j_driver' = g.setup.neo4j_driver
                /\ pg_conn' = g.setup.pg_conn
                /\ calls' = calls \cup g.calls
                /\ queries' = [queries EXCEPT !.graph =
                                 IF "session.run" \in g.calls
                                   THEN CypherQuery(params.max_results) ELSE None]
                /\ created' = Opened(created, neo4j_driver, pg_conn, g.setup)
                /\ IF g.raised
                     THEN /\ pc' = "raised"
                          /\ UNCHANGED <<graph_result, systems_used, context_usage>>
                     ELSE IF NeverAnswers(env.neo4j, "session.run", g.calls)
                     THEN /\ pc' = "blocked"
                          /\ UNCHANGED <<graph_result, systems_used, context_usage>>
                     ELSE /\ pc' = "temporal"
                          /\ graph_result' = g.result
                          /\ systems_used' =
                               SystemsAppend(systems_used, "graph", g.result)
                          /\ context_usage' =
                               DictSet(context_usage, "graph",
                                       Get(g.result, "char_used", 0))
       ELSE /\ pc' = "temporal"
            /\ UNCHANGED <<neo4j_driver, pg_conn, calls, queries, created,
                           graph_result, systems_used, context_usage>>
  /\ UNCHANGED <<params, env, semantic_result, temporal_result, result,
                 http_status>>
  /\ UNCHANGED cvars
  /\ UNCHANGED xvars

\* STEP 3
TemporalStep ==
  /\ pc = "temporal"
  /\ IF AdapterEnabled(params, "temporal")
       THEN LET t == _temporal_analysis(params.date_range, neo4j_driver, pg_conn,
                                       env.neo4j, env.rel,
                                       TemporalRows(env.temporal_n))
            IN  /\ neo4j_driver' = t.setup.neo4j_driver
                /\ pg_conn' = t.setup.pg_conn
                /\ calls' = calls \cup t.calls
                /\ queries' = [queries EXCEPT !.temporal =
                                 IF "cur.execute" \in t.calls
                                   THEN TemporalQuery(params.date_range,
                                                      params.max_results, env.now)
                                   ELSE None]
                /\ created' = Opened(created, neo4j_driver, pg_conn, t.setup)
                /\ IF t.raised
                     THEN /\ pc' = "raised"
                          /\ UNCHANGED <<temporal_result, systems_used,
                                         context_usage>>
                     ELSE IF NeverAnswers(env.rel, "cur.execute", t.calls)
                     THEN /\ pc' = "blocked"
                          /\ UNCHANGED <<temporal_result, systems_used,
                                         context_usage>>
                     ELSE /\ pc' = "summary"
                          /\ temporal_result' = t.result
                          /\ systems_used' =
                               SystemsAppend(systems_used, "temporal", t.result)
                          /\ context_usage' =
                               DictSet(context_usage, "temporal",
                                       Get(t.result, "char_used", 0))
       ELSE /\ pc' = "summary"
            /\ UNCHANGED <<neo4j_driver, pg_conn, calls, queries, created,
                           temporal_result, systems_used, context_usage>>
  /\ UNCHANGED <<params, env, semantic_result, graph_result, result,
                 http_status>>
  /\ UNCHANGED cvars
  /\ UNCHANGED xvars

\* STEP 4 and the return
Aggregate ==
  /\ pc = "summary"
  /\ result' =
       [ query |-> params.query,
         systems_used |-> systems_used,
         semantic_analysis |-> semantic_result,
         graph_data |-> graph_result,
         temporal_data |-> temporal_result,
         combined_summary |->
           CombinedSummary(SummaryParts(semantic_result, graph_result,
                                        temporal_result)),
         context_usage |-> context_usage,
         chunking_applied |->
           ChunkingApplied(params,
                           SumValues(context_usage, DOMAIN context_usage)) ]
  /\ pc' = "returned"
  /\ UNCHANGED <<params, env, neo4j_driver, pg_conn, semantic_result,
                 graph_result, temporal_result, systems_used, context_usage,
                 calls, queries, created, http_status>>
  /\ UNCHANGED cvars
  /\ UNCHANGED xvars

\* mcp_tri_query answers: the result, or HTTP 500 for any exception; the
\* tool is dropped and its __del__ closes what it opened.
Respond ==
  /\ pc \in {"returned", "raised"}
  /\ http_status' = IF pc = "returned" THEN 200 ELSE 500
  /\ pc' = "idle"
  /\ params' = NoParams
  /\ env' = None
  /\ neo4j_driver' = "None"
  /\ pg_conn' = "None"
  /\ semantic_result' = None
  /\ graph_result' = None
  /\ temporal_result' = None
  /\ systems_used' = <<>>
  /\ context_usage' = EmptyDict
  /\ calls' = {}
  /\ queries' = NoQueries
  /\ result' = None
  /\ UNCHANGED created
  /\ UNCHANGED cvars
  /\ UNCHANGED xvars

Next ==
  \/ Request
  \/ SemanticStep
  \/ GraphStep
  \/ TemporalStep
  \/ Aggregate
  \/ Respond

Spec == Init /\ [][Next]_vars

NextProcess ==
  \/ ProcessRequest
  \/ SemanticStep
  \/ GraphStep
  \/ TemporalStep
  \/ Aggregate
  \/ Respond

SpecProcess == Init /\ [][NextProcess]_vars

\* ================================================== properties: chunker
\* The salient sentences of a text and their concatenation.
SalientSentences(text) == important_sentences(Split(text))

SalientText(text) == Join(SalientSentences(text))

AllSalientIn(text, out) ==
  \A i \in 1..Len(SalientSentences(text)) :
    Contains(out, SalientSentences(text)[i])

\* C1: for every text, every budget >= 4 and both values of smart, the
\* chunk returned by _chunk_text is no longer than the budget.
C1_SizeBound == (cpc = "done" /\ cbudget >= 4) => Len(cout) <= cbudget

\* C5: a text no longer than the budget (the empty text and a text of
\* exactly the budget included) is returned unchanged, smart or not.
C5_IdentityOnShort == (cpc = "done" /\ Len(ctext) <= cbudget) => cout = ctext

C5_Witness ==
  /\ cpc = "done"
  /\ Len(ctext) = cbudget
  /\ cbudget > 0
  /\ csmart
  /\ SalientSentences(ctext) # <<>>
  /\ cout = ctext

\* C6 as stated: with smart chunking, when the salient sentences joined by
\* the delimiter are no longer than the budget, every salient sentence is a
\* substring of the output.
C6_SaliencePreservedUpToBudget ==
  (cpc = "done" /\ csmart /\ Len(SalientText(ctext)) <= cbudget)
    => AllSalientIn(ctext, cout)

\* C6 amended: with smart chunking, when the salient sentences joined by the
\* delimiter are strictly shorter than the budget, or the whole text is no
\* longer than the budget, every salient sentence is a substring of the
\* output.
C6_SaliencePreservedBelowBudget ==
  (cpc = "done" /\ csmart
     /\ (Len(SalientText(ctext)) < cbudget \/ Len(ctext) <= cbudget))
    => AllSalientIn(ctext, cout)

C6_Witness ==
  /\ cpc = "done"
  /\ csmart
  /\ Len(ctext) > cbudget
  /\ Len(SalientSentences(ctext)) >= 2
  /\ regular_sentences(Split(ctext)) # <<>>
  /\ Len(SalientText(ctext)) < cbudget
  /\ cout # ctext
  /\ AllSalientIn(ctext, cout)

\* ================================================ properties: tri-query
Finished == pc \in {"returned", "raised"}

\* A request that passes the validation the specification asks for.
ValidRequest ==
  params # NoParams /\ params.chunk_size > 0 /\ params.max_results > 0

\* The collaborator of an enabled adapter fails at some step of the adapter.
SemanticCollaboratorFails == params.use_semantic /\ env.gen = "raise"

GraphCollaboratorFails ==
  params.use_graph /\ (env.neo4j # "ok" \/ env.rel = "connect")

TemporalCollaboratorFails ==
  params.use_dates /\ (env.rel # "ok" \/ env.neo4j = "driver")

\* C2: whatever collaborator fails at whatever step of an enabled adapter,
\* execute() returns normally and that adapter's result carries an error
\* with zero usage; no exception reaches the caller of execute().  Stated
\* for valid requests, so that no missing validation is involved.
C2_NoAdapterFailurePropagates ==
  /\ ValidRequest => pc # "raised"
  /\ (ValidRequest /\ pc = "returned") =>
       /\ SemanticCollaboratorFails =>
            /\ HasError(result.semantic_analysis)
            /\ result.context_usage["semantic"] = 0
       /\ GraphCollaboratorFails =>
            /\ HasError(result.graph_data)
            /\ result.context_usage["graph"] = 0
       /\ TemporalCollaboratorFails =>
            /\ HasError(result.temporal_data)
            /\ result.context_usage["temporal"] = 0

\* C3: with all three sources enabled, when the graph collaborator raises and
\* the semantic and temporal collaborators succeed, execute() returns an
\* aggregate with the semantic and temporal results of the run in which the
\* graph succeeds, graph_data carries an error and context_usage["graph"] = 0.
\* Stated for valid requests.
C3_PartialFailureIsolation ==
  ( /\ Finished
    /\ ValidRequest
    /\ params.use_semantic /\ params.use_graph /\ params.use_dates
    /\ env.neo4j # "ok" /\ env.gen = "ok" /\ env.rel = "ok" )
  => /\ pc = "returned"
     /\ result.semantic_analysis =
          _semantic_analysis(params.query, params.chunk_size, env.gen, env.gen_text)
     /\ result.temporal_data =
          TemporalOk(TemporalResults(TemporalRows(env.temporal_n)),
                     params.date_range)
     /\ HasError(result.graph_data)
     /\ result.context_usage["graph"] = 0

\* C4: a request with chunk_size <= 0 or max_results <= 0 fails with a
\* validation error before any collaborator is called or connected to.
C4_FailFastValidation ==
  (Finished /\ (params.chunk_size <= 0 \/ params.max_results <= 0))
    => (pc = "raised" /\ calls = {})

\* The length of the text a source surfaced in its result.
SurfacedLen(name) ==
  IF name = "semantic"
    THEN Len(Get(result.semantic_analysis, "analysis", <<>>))
  ELSE IF name = "graph"
    THEN SumLen(Get(result.graph_data, "collaborations", <<>>))
  ELSE SumLen(Get(result.temporal_data, "timeline", <<>>))

Invoked ==
  (IF params.use_semantic THEN {"semantic"} ELSE {})
    \cup (IF params.use_graph THEN {"graph"} ELSE {})
    \cup (IF params.use_dates THEN {"temporal"} ELSE {})

\* C7 as stated: in every returned aggregate, for every invoked source,
\* context_usage[name] is >= 0 and is the exact length of the text that
\* source surfaced (analysis text; collaboration strings; timeline strings).
\* Stated for valid requests.
C7_UsageIsSurfacedLength ==
  (pc = "returned" /\ ValidRequest) =>
    \A name \in Invoked :
      /\ Get(result.context_usage, name, 0 - 1) >= 0
      /\ Get(result.context_usage, name, 0 - 1) = SurfacedLen(name)

\* C7 amended: in every returned aggregate, for every invoked source,
\* context_usage[name] is >= 0; for graph and temporal it is the summed
\* length of the collaboration (timeline) strings; for semantic it is the
\* length of the prompt plus the length of the analysis text, and 0 when the
\* semantic adapter errored.
C7_UsageIsSurfacedLengthPlusPrompt ==
  pc = "returned" =>
    \A name \in Invoked :
      /\ Get(result.context_usage, name, 0 - 1) >= 0
      /\ Get(result.context_usage, name, 0 - 1) =
           IF name # "semantic" THEN SurfacedLen(name)
           ELSE IF HasError(result.semantic_analysis) THEN 0
           ELSE PromptLen(params.query) + SurfacedLen(name)

C7_Witness ==
  /\ pc = "returned"
  /\ Invoked = {"semantic", "graph", "temporal"}
  /\ ~HasError(result.semantic_analysis)
  /\ Len(result.semantic_analysis.analysis) < Len(env.gen_text)
  /\ Len(Get(result.graph_data, "collaborations", <<>>)) >= 2
  /\ Len(Get(result.temporal_data, "timeline", <<>>)) >= 2
  /\ result.context_usage["graph"] > 0
  /\ result.context_usage["temporal"] > 0

\* C8: in every returned aggregate context_usage has an entry for each of
\* semantic, graph and temporal, and the entry is 0 for every adapter that
\* was disabled or whose call errored.  Stated for valid requests.
C8_UsageMapsAllThree ==
  (pc = "returned" /\ ValidRequest) =>
    /\ DOMAIN result.context_usage = {"semantic", "graph", "temporal"}
    /\ \A name \in {"semantic", "graph", "temporal"} :
         (name \notin Invoked
            \/ (name = "semantic" /\ HasError(result.semantic_analysis))
            \/ (name = "graph" /\ HasError(result.graph_data))
            \/ (name = "temporal" /\ HasError(result.temporal_data)))
           => Get(result.context_usage, name, 0 - 1) = 0

\* C9: every source result that carries an error carries zero usage
\* (tokens_used for semantic, char_used for graph and temporal).
C9_ErrorHasZeroUsage ==
  /\ HasError(semantic_result) =>
       ("tokens_used" \in DOMAIN semantic_result /\ semantic_result.tokens_used = 0)
  /\ HasError(graph_result) =>
       ("char_used" \in DOMAIN graph_result /\ graph_result.char_used = 0)
  /\ HasError(temporal_result) =>
       ("char_used" \in DOMAIN temporal_result /\ temporal_result.char_used = 0)

C9_Witness ==
  /\ pc = "returned"
  /\ HasError(result.semantic_analysis)
  /\ HasError(result.graph_data)
  /\ HasError(result.temporal_data)

\* [semantic, graph, temporal] restricted to the flags that are true.
CanonicalSystems(p) ==
  (IF p.use_semantic THEN <<"semantic">> ELSE <<>>)
    \o (IF p.use_graph THEN <<"graph">> ELSE <<>>)
    \o (IF p.use_dates THEN <<"temporal">> ELSE <<>>)

\* C10: in every returned aggregate systems_used is the subsequence of
\* [semantic, graph, temporal] whose request flags are true, in that order,
\* whether or not each adapter's call succeeded.
C10_SystemsUsedAreTheFlags ==
  pc = "returned" => result.systems_used = CanonicalSystems(params)

C10_Witness ==
  /\ pc = "returned"
  /\ params.use_semantic /\ params.use_graph /\ params.use_dates
  /\ HasError(result.graph_data)
  /\ ~HasError(result.semantic_analysis)
  /\ result.systems_used = <<"semantic", "graph", "temporal">>


\* The calls that send an adapter's query to its collaborator.
QueryCalls(name) ==
  IF name = "semantic" THEN {"generate_content"}
  ELSE IF name = "graph" THEN {"driver.session", "session.run"}
  ELSE {"pg_conn.cursor", "cur.execute"}

ResultField(name) ==
  IF name = "semantic" THEN result.semantic_analysis
  ELSE IF name = "graph" THEN result.graph_data
  ELSE result.temporal_data

\* C11: an adapter runs if and only if its flag is true: in every returned
\* aggregate a source's result field is present exactly when its flag is
\* true and null otherwise, and the query of a disabled adapter is never
\* issued.
C11_AdapterRunsIffFlag ==
  /\ pc = "returned" =>
       \A name \in {"semantic", "graph", "temporal"} :
         (ResultField(name) # None) <=> (name \in Invoked)
  /\ params # NoParams =>
       \A name \in {"semantic", "graph", "temporal"} :
         name \notin Invoked => calls \cap QueryCalls(name) = {}

C11_Witness ==
  /\ pc = "returned"
  /\ Invoked = {"semantic", "temporal"}
  /\ result.graph_data = None
  /\ result.semantic_analysis # None
  /\ result.temporal_data # None
  /\ "cur.execute" \in calls
  /\ "session.run" \notin calls


\* The text that opens a source's fragment of the summary.
FragmentLabel(name) ==
  IF name = "semantic" THEN SemanticLabel
  ELSE IF name = "graph" THEN GraphLabel
  ELSE TemporalLabel

\* Number of fragments of a source in a summary.
FragmentCount(summary, name) ==
  Cardinality({ i \in 1..Len(summary) : StartsAt(summary, FragmentLabel(name), i) })

\* The adapter ran and its result carries no error.
NonError(name) == ResultField(name) # None /\ ~HasError(ResultField(name))

\* C12: an adapter whose result carries an error contributes no fragment:
\* the summary of a returned aggregate contains the semantic, graph or
\* temporal fragment only if that adapter produced a non-error result.
\* Stated for valid requests.
C12_ErrorContributesNoFragment ==
  (pc = "returned" /\ ValidRequest) =>
    \A name \in {"semantic", "graph", "temporal"} :
      FragmentCount(result.combined_summary, name) > 0 => NonError(name)

\* C13: every adapter that produced a non-error result contributes exactly
\* one fragment to the summary, a graph or temporal adapter whose query
\* succeeded with zero rows included. Stated for valid requests.
C13_NonErrorContributesOneFragment ==
  (pc = "returned" /\ ValidRequest) =>
    \A name \in {"semantic", "graph", "temporal"} :
      NonError(name) => FragmentCount(result.combined_summary, name) = 1


\* Where a source's fragment starts in a summary (0: nowhere).
FragmentStart(summary, name) ==
  IF FragmentCount(summary, name) = 0 THEN 0
  ELSE CHOOSE i \in 1..Len(summary) : StartsAt(summary, FragmentLabel(name), i)

SummaryOrder == <<"semantic", "graph", "temporal">>

\* The fragment of the k-th source is at the head of the summary, or right
\* after a " | " that follows the fragment of an earlier source.
WellPlaced(summary, k) ==
  LET at == FragmentStart(summary, SummaryOrder[k])
      earlier == { FragmentStart(summary, SummaryOrder[j]) : j \in 1..(k - 1) } \ {0}
  IN at > 0 =>
       IF earlier = {}
         THEN at = 1
         ELSE /\ \A b \in earlier : b < at
              /\ at > 3
              /\ SubSeq(summary, at - 3, at - 1) = <<" ", "|", " ">>

\* What the semantic fragment shows after its label.
SemanticShown(summary) ==
  LET from == FragmentStart(summary, "semantic") + Len(SemanticLabel)
      later == { FragmentStart(summary, n) : n \in {"graph", "temporal"} } \ {0}
      upto == IF later = {} THEN Len(summary)
              ELSE (CHOOSE b \in later : \A c \in later : b <= c) - 4
  IN SubSeq(summary, from, upto)

\* C14: the summary of a returned aggregate is the 'no system' sentinel
\* exactly when it holds no fragment; otherwise it holds at most one
\* fragment per source, the fragments stand in the order semantic, graph,
\* temporal joined by " | ", and the semantic fragment shows the first 100
\* characters of the analysis text and no more.
C14_SummaryShape ==
  pc = "returned" =>
    LET s == result.combined_summary
        names == {"semantic", "graph", "temporal"}
    IN /\ (s = NoSystem) <=> (\A n \in names : FragmentCount(s, n) = 0)
       /\ \A n \in names : FragmentCount(s, n) <= 1
       /\ \A k \in 1..3 : WellPlaced(s, k)
       /\ FragmentCount(s, "semantic") = 1 =>
            /\ Len(SemanticShown(s)) <= 100
            /\ "analysis" \in DOMAIN result.semantic_analysis =>
                 LET a == result.semantic_analysis.analysis
                 IN SemanticShown(s) =
                      SubSeq(a, 1, IF Len(a) < 100 THEN Len(a) ELSE 100)

C14_Witness ==
  /\ pc = "returned"
  /\ ValidRequest
  /\ params.chunk_size > 100
  /\ "analysis" \in DOMAIN result.semantic_analysis
  /\ Len(result.semantic_analysis.analysis) > 100
  /\ Len(SemanticShown(result.combined_summary)) = 100
  /\ FragmentCount(result.combined_summary, "graph") = 1
  /\ FragmentCount(result.combined_summary, "temporal") = 1


\* C15: for every returned request with use_graph, chunk_size > 0 and
\* max_results > 0, every string of the collaborations list is at most
\* chunk_size // max_results long, so that char_used is at most chunk_size
\* when the graph store returned at most max_results rows.
C15_GraphPerItemBudget ==
  (pc = "returned" /\ ValidRequest /\ params.use_graph
     /\ "collaborations" \in DOMAIN result.graph_data) =>
    LET items == result.graph_data.collaborations
    IN /\ \A i \in 1..Len(items) :
            Len(items[i]) <= params.chunk_size \div params.max_results
       /\ Len(items) <= params.max_results =>
            result.graph_data.char_used <= params.chunk_size


\* The years of a date_range of the form "Y1-Y2".
YearForm == {"2020-2024", "2019-2021"}

FirstYear(date_range) == IF date_range = "2020-2024" THEN 2020 ELSE 2019

LastYear(date_range) == IF date_range = "2020-2024" THEN 2024 ELSE 2021

\* The filter the date_range asks for: "Y1-Y2" from Y1-01-01 up to, not
\* including, (Y2+1)-01-01; "last_year" the 365 days before the reference
\* instant; "all" no restriction (the weakest filter, 'date not null', is
\* accepted as none); any other value 'date not null'.
ResolvesDateRange(date_range, now, filter) ==
  IF date_range \in YearForm
    THEN filter = [ lower |-> YearStart(FirstYear(date_range)),
                    upper |-> YearStart(LastYear(date_range) + 1) ]
  ELSE IF date_range = "last_year"
    THEN filter = [ lower |-> [day |-> (now \div HoursPerDay) - 365] ]
  ELSE filter = [not_null |-> TRUE]

\* C16: the temporal adapter's query carries the filter its date_range
\* resolves to: "Y1-Y2" gives published_date >= Y1-01-01 and
\* < (Y2+1)-01-01, "all" no date restriction, "last_year" the trailing 365
\* days, every other value 'date not null'.  Stated for valid requests.
C16_DateRangeResolution ==
  (ValidRequest /\ queries.temporal # None) =>
    ResolvesDateRange(params.date_range, env.now, queries.temporal.date_filter)

\* What the request alone, with the responses of the collaborators, fixes:
\* the queries a request sends are the same under every reading of the
\* clock.
QueriesIgnoreClock ==
  \A now \in Nows :
    /\ queries.temporal # None =>
         queries.temporal =
           TemporalQuery(params.date_range, params.max_results, now)
    /\ queries.graph # None => queries.graph = CypherQuery(params.max_results)
    /\ queries.semantic # None => queries.semantic = SemanticPrompt(params.query)

\* C17: equal requests with equal collaborator responses give equal
\* summaries and equal queries: the summary is fixed by the source results
\* and no query depends on the wall clock.  Stated for valid requests.
C17_Deterministic ==
  (pc = "returned" /\ ValidRequest) =>
    /\ result.combined_summary =
         CombinedSummary(SummaryParts(result.semantic_analysis,
                                      result.graph_data, result.temporal_data))
    /\ QueriesIgnoreClock


\* C18: over any sequence of requests served by one process, the graph
\* driver and the relational connection are each created at most once (and
\* so reused by every later request).
C18_ConnectionsCreatedOnce ==
  /\ created.driver <= 1
  /\ created.pg <= 1

\* A collaborator of an enabled adapter never answers its call.
CollaboratorNeverAnswers(name) ==
  /\ params # NoParams
  /\ AdapterEnabled(params, name)
  /\ IF name = "semantic" THEN env.gen = "hang"
     ELSE IF name = "graph" THEN env.neo4j = "hang"
     ELSE env.rel = "hang"

\* C19: a request in progress can always take its next step, up to the
\* response, even when a collaborator call never answers; the adapter of
\* that collaborator then returns an error-tagged result with zero usage.
C19_BoundedDeadline ==
  /\ pc # "idle" => ENABLED NextProcess
  /\ pc = "returned" =>
       \A name \in {"semantic", "graph", "temporal"} :
         CollaboratorNeverAnswers(name) =>
           /\ HasError(ResultField(name))
           /\ result.context_usage[name] = 0

\* The result an adapter left in execute, None while it has not finished.
AdapterResult(name) ==
  IF name = "semantic" THEN semantic_result
  ELSE IF name = "graph" THEN graph_result
  ELSE temporal_result

\* C20: the aggregate exists and the response is returned only after every
\* enabled adapter has finished, and it is built from what they returned.
C20_JoinBeforeAggregate ==
  (result # None \/ pc = "returned") =>
    /\ pc = "returned"
    /\ \A name \in {"semantic", "graph", "temporal"} :
         /\ name \in Invoked => AdapterResult(name) # None
         /\ ResultField(name) = AdapterResult(name)

C20_Witness ==
  /\ pc = "returned"
  /\ Invoked = {"semantic", "graph", "temporal"}
  /\ semantic_result # None /\ graph_result # None /\ temporal_result # None
  /\ result.systems_used = <<"semantic", "graph", "temporal">>
  /\ DOMAIN result.context_usage = {"semantic", "graph", "temporal"}


\* ================================= properties: the branches of the chunker
RegularText(text) == Join(regular_sentences(Split(text)))

\* One separator: the sentence delimiter or one of its characters.
Separators == { Delimiter, <<".">>, <<" ">> }

\* The first n characters of s, for n >= 0.
FirstChars(s, n) == SubSeq(s, 1, IF n < Len(s) THEN n ELSE Len(s))

\* The last n characters of s, for n >= 0.
LastChars(s, n) == SubSeq(s, (IF n < Len(s) THEN Len(s) - n ELSE 0) + 1, Len(s))

\* C22: with smart chunking, a text longer than the budget and salient text
\* shorter than the budget, let remaining = budget - len(salient_text) - 1;
\* the output is salient_text, a separator and regular_text when
\* regular_text is at most remaining long, and salient_text, a separator,
\* the first remaining characters of regular_text and the ellipsis
\* otherwise.  Stated for budgets >= 4.
C22_SmartFillBranch ==
  (cpc = "done" /\ csmart /\ cbudget >= 4 /\ Len(ctext) > cbudget
     /\ Len(SalientText(ctext)) < cbudget) =>
    LET remaining == cbudget - Len(SalientText(ctext)) - 1
    IN  \E sep \in Separators :
          IF Len(RegularText(ctext)) <= remaining
            THEN cout = SalientText(ctext) \o sep \o RegularText(ctext)
            ELSE cout = SalientText(ctext) \o sep
                          \o FirstChars(RegularText(ctext), remaining) \o Ellipsis

\* C23: with smart chunking and a text longer than the budget, salient text
\* at least as long as the budget gives exactly the first budget-3
\* characters of salient_text followed by the ellipsis, of length exactly
\* budget, with nothing of the non-salient sentences.  Stated for positive
\* budgets.
C23_SmartOverflowBranch ==
  (cpc = "done" /\ csmart /\ cbudget > 0 /\ Len(ctext) > cbudget
     /\ Len(SalientText(ctext)) >= cbudget) =>
    /\ Len(cout) = cbudget
    /\ cbudget >= 3
    /\ cout = FirstChars(SalientText(ctext), cbudget - 3) \o Ellipsis

\* C24: without smart chunking, a text longer than the budget gives its
\* first floor(budget*0.6) characters, the ellipsis and its last
\* floor(budget*0.4) characters, at most budget characters in all.  Stated
\* for budgets >= 4.
C24_HeadTailSplit ==
  (cpc = "done" /\ ~csmart /\ cbudget >= 4 /\ Len(ctext) > cbudget) =>
    /\ cout = FirstChars(ctext, (cbudget * 6) \div 10) \o Ellipsis
                \o LastChars(ctext, (cbudget * 4) \div 10)
    /\ Len(cout) <= cbudget


\* The sentences at the indices idx, from index i on, in their order.
RECURSIVE Pick(_, _, _)
Pick(seq, idx, i) ==
  IF i > Len(seq) THEN <<>>
  ELSE (IF i \in idx THEN << seq[i] >> ELSE <<>>) \o Pick(seq, idx, i + 1)

SalientIndices(sentences) ==
  { i \in 1..Len(sentences) :
      \E k \in 1..Len(art_keywords) :
        Contains(Lower(sentences[i]), art_keywords[k]) }

\* out is salient content followed by non-salient content: a cut salient
\* text and the ellipsis, or the whole salient text, the delimiter and a
\* (possibly cut) start of the regular text.
SalientFirst(out, salient_text, regular_text) ==
  \/ \E n \in 0..Len(salient_text) :
       out = SubSeq(salient_text, 1, n) \o Ellipsis
  \/ \E n \in 0..Len(regular_text) : \E tail \in { <<>>, Ellipsis } :
       out = salient_text \o Delimiter \o SubSeq(regular_text, 1, n) \o tail

\* C25: in smart chunking every sentence of the split on ". " is salient or
\* non-salient, never both and never neither (salient iff its lower-cased
\* form contains a keyword); salient_text is the salient sentences in their
\* original order joined by ". "; and in the output all salient content
\* comes before all non-salient content.
C25_SentencePartitionAndOrder ==
  (cpc = "done" /\ csmart /\ Len(ctext) > cbudget) =>
    LET sentences == Split(ctext)
        salient == SalientIndices(sentences)
        others == (1..Len(sentences)) \ salient
    IN  /\ important_sentences(sentences) = Pick(sentences, salient, 1)
        /\ regular_sentences(sentences) = Pick(sentences, others, 1)
        /\ SalientFirst(cout, Join(Pick(sentences, salient, 1)),
                        Join(Pick(sentences, others, 1)))

C25_Witness ==
  /\ cpc = "done"
  /\ csmart
  /\ Len(ctext) > cbudget
  /\ LET sentences == Split(ctext)
     IN  /\ Len(sentences) = 3
         /\ SalientIndices(sentences) = {2, 3}
         /\ sentences[2] # sentences[3]
         /\ cout = sentences[2] \o Delimiter \o sentences[3] \o Delimiter \o Ellipsis


\* ================================== properties: adapters and parameters
\* The first whitespace-delimited token of a query, empty when it has none.
FirstToken(query) ==
  IF \A i \in 1..Len(query) : IsSpace(query[i]) THEN <<>>
  ELSE LET from == CHOOSE i \in 1..Len(query) :
                     /\ ~IsSpace(query[i])
                     /\ \A j \in 1..(i - 1) : IsSpace(query[j])
           upto == CHOOSE i \in from..Len(query) :
                     /\ \A j \in from..i : ~IsSpace(query[j])
                     /\ (i = Len(query) \/ IsSpace(query[i + 1]))
       IN  SubSeq(query, from, upto)

\* C26: for every query, the empty and the whitespace-only one included,
\* when the generative collaborator answers, the semantic adapter returns a
\* non-error result whose focus is the first whitespace-delimited token of
\* the query (empty when there is none) and whose tokens_used is the length
\* of the prompt plus the length of the chunked analysis.  Stated for valid
\* requests.
C26_SemanticResultForEveryQuery ==
  (ValidRequest /\ params.use_semantic /\ env.gen = "ok"
     /\ semantic_result # None) =>
    /\ ~HasError(semantic_result)
    /\ semantic_result.focus = FirstToken(params.query)
    /\ semantic_result.tokens_used =
         PromptLen(params.query) + Len(semantic_result.analysis)


\* C28: the outcome of an enabled adapter depends on its own collaborator
\* only: a request with only use_graph never connects to the relational
\* store and succeeds when the graph store answers, whatever the relational
\* store does; a request with only use_dates never creates the graph driver
\* and succeeds when the relational store answers, whatever the graph store
\* does.  Stated for valid requests.
C28_AdapterIndependence ==
  ValidRequest =>
    /\ (params.use_graph /\ ~params.use_dates) =>
         /\ "psycopg2.connect" \notin calls
         /\ (Finished /\ env.neo4j = "ok") =>
              (pc = "returned" /\ ~HasError(result.graph_data))
    /\ (params.use_dates /\ ~params.use_graph) =>
         /\ "GraphDatabase.driver" \notin calls
         /\ (Finished /\ env.rel = "ok") =>
              (pc = "returned" /\ ~HasError(result.temporal_data))


\* What execute returns for request p when the collaborators do e and no
\* exception leaves an adapter, computed from p and e alone.
ExecuteResult(p, e) ==
  LET sem == IF p.use_semantic
               THEN _semantic_analysis(p.query, p.chunk_size, e.gen, e.gen_text)
               ELSE None
      g == _graph_analysis(p.max_results, p.chunk_size, "None", "None",
                           e.neo4j, e.rel, GraphRecords(e.graph_n))
      gr == IF p.use_graph THEN g.result ELSE None
      t == _temporal_analysis(p.date_range,
                              IF p.use_graph THEN "open" ELSE "None",
                              IF p.use_graph THEN "open" ELSE "None",
                              e.neo4j, e.rel, TemporalRows(e.temporal_n))
      tr == IF p.use_dates THEN t.result ELSE None
      u1 == IF p.use_semantic
              THEN DictSet(EmptyDict, "semantic", Get(sem, "tokens_used", 0))
              ELSE EmptyDict
      u2 == IF p.use_graph
              THEN DictSet(u1, "graph", Get(gr, "char_used", 0)) ELSE u1
      u3 == IF p.use_dates
              THEN DictSet(u2, "temporal", Get(tr, "char_used", 0)) ELSE u2
  IN  [ query |-> p.query,
        systems_used |-> CanonicalSystems(p),
        semantic_analysis |-> sem,
        graph_data |-> gr,
        temporal_data |-> tr,
        combined_summary |-> CombinedSummary(SummaryParts(sem, gr, tr)),
        context_usage |-> u3,
        chunking_applied |->
          [ chunk_size |-> p.chunk_size,
            max_results |-> p.max_results,
            total_chars |-> SumValues(u3, DOMAIN u3) ] ]

\* The request with smart_chunking and output_format at their defaults.
WithDefaultFlags(p) ==
  [p EXCEPT !.smart_chunking = TRUE, !.output_format = "summary"]

NeedsConnection == db_connection = 0 \/ db_conns[db_connection] = "closed"

Connecting == {t \in DbTasks : db_tasks[t].pc = "connecting"}

\* connect() has returned conn to its caller: connect itself is finished,
\* the three queries go on to await conn.fetch / conn.fetchrow.
AfterConnect(op, conn) ==
  [pc |-> IF op = "connect" THEN "done" ELSE "fetching", op |-> op, conn |-> conn]

\* A coroutine calls one operation of db.  It runs up to its first await:
\* with a usable connection connect() returns at once, without one it
\* suspends in asyncpg.connect.
DbCall(t, op) ==
  /\ db_tasks[t].pc = "idle"
  /\ IF NeedsConnection
       THEN /\ Len(db_conns) + Cardinality(Connecting) < MaxConns
            /\ db_tasks' = [db_tasks EXCEPT ![t] = [pc |-> "connecting", op |-> op, conn |-> 0]]
       ELSE db_tasks' = [db_tasks EXCEPT ![t] = AfterConnect(op, db_connection)]
  /\ UNCHANGED <<db_connection, db_conns>>
  /\ UNCHANGED dframe

\* asyncpg.connect completes: the new connection is stored in
\* self.connection, whatever that held, and returned.
DbConnected(t) ==
  /\ db_tasks[t].pc = "connecting"
  /\ db_conns' = Append(db_conns, "open")
  /\ db_connection' = Len(db_conns) + 1
  /\ db_tasks' = [db_tasks EXCEPT ![t] = AfterConnect(db_tasks[t].op, Len(db_conns) + 1)]
  /\ UNCHANGED dframe

\* asyncpg.connect raises: nothing is assigned, the exception propagates.
DbConnectFails(t) ==
  /\ db_tasks[t].pc = "connecting"
  /\ db_tasks' = [db_tasks EXCEPT ![t].pc = "failed"]
  /\ UNCHANGED <<db_connection, db_conns>>
  /\ UNCHANGED dframe

\* conn.fetch / conn.fetchrow completes, or raises on a closed connection.
DbFetched(t) ==
  /\ db_tasks[t].pc = "fetching"
  /\ db_tasks' = [db_tasks EXCEPT ![t].pc =
       IF db_conns[db_tasks[t].conn] = "open" THEN "done" ELSE "failed"]
  /\ UNCHANGED <<db_connection, db_conns>>
  /\ UNCHANGED dframe

\* The caller is finished with the operation; its coroutine may call again.
DbReturn(t) ==
  /\ db_tasks[t].pc \in {"done", "failed"}
  /\ db_tasks' = [db_tasks EXCEPT ![t] = TaskIdle]
  /\ UNCHANGED <<db_connection, db_conns>>
  /\ UNCHANGED dframe

\* disconnect(): closes self.connection when there is an open one.
DbDisconnect ==
  /\ db_connection # 0
  /\ db_conns[db_connection] = "open"
  /\ db_conns' = [db_conns EXCEPT ![db_connection] = "closed"]
  /\ UNCHANGED <<db_connection, db_tasks>>
  /\ UNCHANGED dframe

NextDB ==
  \/ \E t \in DbTasks, op \in DbOps : DbCall(t, op)
  \/ \E t \in DbTasks : DbConnected(t)
  \/ \E t \in DbTasks : DbConnectFails(t)
  \/ \E t \in DbTasks : DbFetched(t)
  \/ \E t \in DbTasks : DbReturn(t)
  \/ DbDisconnect

SpecDB == Init /\ [][NextDB]_vars

\* A connection some coroutine is still working with.
InUse(id) == \E t \in DbTasks : db_tasks[t].pc = "fetching" /\ db_tasks[t].conn = id

OpenConns == {id \in 1..Len(db_conns) : db_conns[id] = "open"}

\* C27: under any interleaving of concurrent first-use calls of the
\* ArtribuneDB operations, at most one connection is being created while
\* none is open, at most one is open, and no open connection is left that
\* neither self.connection nor a running operation refers to.
C27_GuardedOneTimeInit ==
  /\ Cardinality(Connecting) <= 1
  /\ Cardinality(OpenConns) <= 1
  /\ \A id \in OpenConns : id = db_connection \/ InUse(id)


\* ------------------------------------------------- tools/entity_tools.py
\* "articles": ...[:10], "exhibitions_events"/"events_exhibitions",
\* "venues", "collaborators": list(...)[:10]; "featured_artists": [:15]
ListLimit == 10

FeaturedLimit == 15

\* The rows search_articles returns.  content_text "" stands for None as
\* well (the code reads only its truth value); extracted_metadata is a dict,
\* the empty one standing for None (`or {}`, parse_metadata).
EntityArticles ==
  { [title |-> <<"B","o"," ","A","l">>, content_text |-> <<>>,
     extracted_metadata |-> [entities |->
       [events |-> <<"E1","E2">>, venues |-> <<"V1">>,
        artists |-> << <<"B","o">>, <<"A","l">> >>]]],
    [title |-> <<"x">>, content_text |-> <<"a","l"," ","b","O">>,
     extracted_metadata |-> [entities |->
       [venues |-> <<"V2","V1">>, artists |-> << <<"C","y">>, <<"A","l">>, <<"b","o">> >>]]],
    [title |-> <<"b","o">>, content_text |-> <<"x">>,
     extracted_metadata |-> [entities |-> [events |-> <<"E2","E3","E1">>]]],
    [title |-> <<"x"," ","y">>, content_text |-> <<>>,
     extracted_metadata |-> [entities |->
       [events |-> <<"E4">>, venues |-> <<"V3">>, artists |-> << <<"D","i">> >>]]] }

ArticleLists ==
  UNION {[1..n -> EntityArticles] : n \in 0..MaxArticles}

ProfileNames == {<<"b","o">>, <<"B","O">>, <<"A","l">>}

\* name.lower() in article["title"].lower() or (article["content_text"]
\* and name.lower() in article["content_text"].lower())
Mentions(name, article) ==
  \/ Contains(Lower(article.title), Lower(name))
  \/ /\ article.content_text # <<>>
     /\ Contains(Lower(article.content_text), Lower(name))

\* metadata.get("entities", {}), then entities[key] when key in entities
\* (updating a set with nothing when it is not).
Listed(article, key) ==
  LET metadata == article.extracted_metadata
      entities == IF "entities" \in DOMAIN metadata THEN metadata.entities ELSE <<>>
  IN IF key \in DOMAIN entities THEN entities[key] ELSE <<>>

Elements(seq) == {seq[i] : i \in 1..Len(seq)}

\* The articles the loop accepts, in the order of the rows.
Accepted(name, articles) == SelectSeq(articles, LAMBDA a : Mentions(name, a))

\* set.update over the accepted articles.
Collected(name, articles, key) ==
  UNION {Elements(Listed(a, key)) : a \in Elements(Accepted(name, articles))}

\* collaborators.add(artist) for artist.lower() != artist_name.lower()
Collaborators(name, articles) ==
  {a \in Collected(name, articles, "artists") : Lower(a) # Lower(name)}

\* list(s)[:n] of a set of strings: a set has no defined iteration order
\* (string hashes are salted per process), so list(s) is any arrangement.
Arrangements(s) ==
  {f \in [1..Cardinality(s) -> s] : \A i, j \in 1..Cardinality(s) : f[i] = f[j] => i = j}

ListOfSet(s, n) == {PySliceTo(f, n) : f \in Arrangements(s)}

ProfileCall ==
  /\ e_pc = "idle"
  /\ e_pc' = "call"
  /\ e_kind' \in {"artist", "venue"}
  /\ e_name' \in ProfileNames
  /\ e_articles' \in ArticleLists
  /\ UNCHANGED e_response
  /\ UNCHANGED <<cvars, tvars, dvars, avars>>

\* ArtistProfileTool.execute / mcp_get_artist_profile
GetArtistProfile ==
  /\ e_pc = "call"
  /\ e_kind = "artist"
  /\ \E ev \in ListOfSet(Collected(e_name, e_articles, "events"), ListLimit),
        vn \in ListOfSet(Collected(e_name, e_articles, "venues"), ListLimit),
        co \in ListOfSet(Collaborators(e_name, e_articles), ListLimit) :
       e_response' =
         [artist_name |-> e_name,
          total_articles |-> Len(Accepted(e_name, e_articles)),
          articles |-> PySliceTo(Accepted(e_name, e_articles), ListLimit),
          exhibitions_events |-> ev,
          venues |-> vn,
          collaborators |-> co]
  /\ e_pc' = "returned"
  /\ UNCHANGED <<e_kind, e_name, e_articles>>
  /\ UNCHANGED <<cvars, tvars, dvars, avars>>

\* VenueProfileTool.execute
GetVenueProfile ==
  /\ e_pc = "call"
  /\ e_kind = "venue"
  /\ \E ar \in ListOfSet(Collected(e_name, e_articles, "artists"), FeaturedLimit),
        ev \in ListOfSet(Collected(e_name, e_articles, "events"), ListLimit) :
       e_response' =
         [venue_name |-> e_name,
          total_articles |-> Len(Accepted(e_name, e_articles)),
          articles |-> PySliceTo(Accepted(e_name, e_articles), ListLimit),
          featured_artists |-> ar,
          events_exhibitions |-> ev]
  /\ e_pc' = "returned"
  /\ UNCHANGED <<e_kind, e_name, e_articles>>
  /\ UNCHANGED <<cvars, tvars, dvars, avars>>

NextProfile ==
  \/ ProfileCall
  \/ GetArtistProfile
  \/ GetVenueProfile

SpecProfile == Init /\ [][NextProfile]_vars

\* Every entity the accepted articles list under a key, in the order of the
\* articles and of each article's list.
RECURSIVE MentionsInOrder(_, _)
MentionsInOrder(articles, key) ==
  IF articles = <<>> THEN <<>>
  ELSE Listed(Head(articles), key) \o MentionsInOrder(Tail(articles), key)

\* A list without its repetitions, each entity where it first occurs.
FirstSeen(seq) ==
  SelectSeq([i \in 1..Len(seq) |-> IF \E j \in 1..(i - 1) : seq[j] = seq[i] THEN <<"dup">> ELSE <<"new", seq[i]>>],
            LAMBDA x : x[1] = "new")

FirstSeenList(key) ==
  LET kept == FirstSeen(MentionsInOrder(Accepted(e_name, e_articles), key))
  IN [i \in 1..Len(kept) |-> kept[i][2]]

OtherArtists(seq) == SelectSeq(seq, LAMBDA a : Lower(a) # Lower(e_name))

\* C21: for a fixed ordered list of articles, the venues, events and
\* collaborators of an artist profile, and the featured artists and events
\* of a venue profile, are the de-duplicated entities in order of first
\* occurrence, truncated to the fixed count.
C21_FirstSeenEntityLists ==
  e_pc = "returned" =>
    IF e_kind = "artist"
      THEN /\ e_response.exhibitions_events = PySliceTo(FirstSeenList("events"), ListLimit)
           /\ e_response.venues = PySliceTo(FirstSeenList("venues"), ListLimit)
           /\ e_response.collaborators = PySliceTo(OtherArtists(FirstSeenList("artists")), ListLimit)
      ELSE /\ e_response.featured_artists = PySliceTo(FirstSeenList("artists"), FeaturedLimit)
           /\ e_response.events_exhibitions = PySliceTo(FirstSeenList("events"), ListLimit)


\* ------------------------------------------------------- auth/api_key.py
\* [a-zA-Z0-9]
Alnum == Elements(LowerLetters) \cup Elements(UpperLetters) \cup Elements(Digits)

KeyPrefix == <<"a","r","t","r","-">>

\* {24}
KeyBodyLen == 24

\* re.match(r'^artr-[a-zA-Z0-9]{24}$', key) with any length of body.
validate_api_key_format_any_length(key) ==
  /\ Len(key) >= Len(KeyPrefix)
  /\ SubSeq(key, 1, Len(KeyPrefix)) = KeyPrefix
  /\ \A i \in (Len(KeyPrefix) + 1)..Len(key) : key[i] \in Alnum

\* bool(re.match(r'^artr-[a-zA-Z0-9]{24}$', key)): `$` matches at the end
\* of the string and also just before a newline that ends the string.
validate_api_key_format(key) ==
  LET matched == IF Len(key) > 0 /\ key[Len(key)] = "\n"
                   THEN SubSeq(key, 1, Len(key) - 1) ELSE key
  IN /\ Len(matched) = Len(KeyPrefix) + KeyBodyLen
     /\ SubSeq(matched, 1, Len(KeyPrefix)) = KeyPrefix
     /\ \A i \in (Len(KeyPrefix) + 1)..Len(matched) : matched[i] \in Alnum

\* Characters str.strip() removes.
Whitespace == {" ", "\t", "\n", "\r"}

\* key.strip()
Strip(s) ==
  LET kept == {i \in 1..Len(s) : s[i] \notin Whitespace}
  IN IF kept = {} THEN <<>>
     ELSE SubSeq(s, CHOOSE i \in kept : \A k \in kept : i <= k,
                    CHOOSE j \in kept : \A k \in kept : k <= j)

\* keys_str.split(","): "" gives [""].
RECURSIVE CommaSplitFrom(_, _)
CommaSplitFrom(s, start) ==
  LET found == {j \in start..Len(s) : s[j] = ","}
  IN IF found = {} THEN << SubSeq(s, start, Len(s)) >>
     ELSE LET j == CHOOSE j \in found : \A k \in found : j <= k
          IN << SubSeq(s, start, j - 1) >> \o CommaSplitFrom(s, j + 1)

\* [key.strip() for key in keys_str.split(",") if key.strip()]
StrippedKeys(keys_str) ==
  LET parts == CommaSplitFrom(keys_str, 1)
      stripped == [i \in 1..Len(parts) |-> Strip(parts[i])]
  IN SelectSeq(stripped, LAMBDA key : key # <<>>)

\* get_valid_api_keys(), keys_str being os.getenv("MCP_API_KEYS", "")
get_valid_api_keys(keys_str) ==
  SelectSeq(StrippedKeys(keys_str), LAMBDA key : validate_api_key_format(key))

HTTPException(status_code) == [status_code |-> status_code]

Returned(key) == [returned |-> key]

\* The keys presented and the settings of MCP_API_KEYS.
Key1 == KeyPrefix \o Repeat(<<"a","B","3">>, 8)
Key2 == KeyPrefix \o Repeat(<<"Z","9">>, 12)
Key3 == KeyPrefix \o Repeat(<<"q">>, 24)
Key1OtherCase == KeyPrefix \o Repeat(<<"a","b","3">>, 8)
KeyShort == KeyPrefix \o Repeat(<<"a">>, 23)
KeyLong == KeyPrefix \o Repeat(<<"a">>, 25)
KeyUnderscore == KeyPrefix \o Repeat(<<"a">>, 23) \o <<"_">>
KeyOtherPrefix == <<"a","r","t","x","-">> \o Repeat(<<"a","B","3">>, 8)
KeyUpperPrefix == <<"A","R","T","R","-">> \o Repeat(<<"a","B","3">>, 8)

\* credentials.credentials: what follows the scheme in an Authorization
\* header, which cannot hold a line break.
PresentedKeys ==
  { Key1, Key2, Key3, Key1OtherCase, KeyShort, KeyLong, KeyUnderscore,
    KeyOtherPrefix, KeyUpperPrefix, <<>>, KeyPrefix, <<" ">> \o Key1 }

KeySettings ==
  { <<>>,
    Key1,
    Key1 \o <<",">> \o Key2,
    <<" ">> \o Key1 \o <<" ", ",", " ">> \o KeyShort,
    KeyShort,
    Key1 \o <<",", ",">> \o Key2,
    <<",">>,
    Key2 \o <<"\n">>,
    KeyLong \o <<",">> \o KeyUnderscore,
    <<" ", "\t">> \o Key1OtherCase,
    Key1 \o <<" ">> \o Key2,
    Key3 \o <<",">> \o KeyUpperPrefix \o <<",", " ">> }

AuthCall ==
  /\ a_pc = "idle"
  /\ a_pc' = "call"
  /\ a_credentials' \in PresentedKeys
  /\ a_env' \in KeySettings
  /\ UNCHANGED a_outcome
  /\ UNCHANGED <<cvars, tvars, evars, dvars>>

verify_api_key ==
  /\ a_pc = "call"
  /\ a_outcome' =
       IF ~validate_api_key_format(a_credentials) THEN HTTPException(401)
       ELSE LET valid_keys == get_valid_api_keys(a_env)
            IN IF valid_keys = <<>> THEN HTTPException(500)
               ELSE IF a_credentials \notin Elements(valid_keys) THEN HTTPException(401)
               ELSE Returned(a_credentials)
  /\ a_pc' = "returned"
  /\ UNCHANGED <<a_credentials, a_env>>
  /\ UNCHANGED <<cvars, tvars, evars, dvars>>

NextAuth ==
  \/ AuthCall
  \/ verify_api_key

SpecAuth == Init /\ [][NextAuth]_vars

\* artr-<24 alphanumeric characters>
WellFormed(key) ==
  \E body \in {SubSeq(key, Len(KeyPrefix) + 1, Len(key))} :
    /\ key = KeyPrefix \o body
    /\ Len(body) = KeyBodyLen
    /\ Elements(body) \subseteq Alnum

\* The entries of MCP_API_KEYS: the pieces between commas, without the
\* white space around them.
ConfiguredKeys(setting) ==
  LET cuts == {0, Len(setting) + 1} \cup {i \in 1..Len(setting) : setting[i] = ","}
  IN { Strip(SubSeq(setting, i + 1, j - 1)) :
         <<i, j>> \in {c \in cuts \X cuts : c[1] < c[2] /\ \A k \in cuts : ~(c[1] < k /\ k < c[2])} }

FormatValidConfigured(setting) == {key \in ConfiguredKeys(setting) : WellFormed(key)}

Rejected(status_code) ==
  "status_code" \in DOMAIN a_outcome /\ a_outcome.status_code = status_code

ReturnsKey == "returned" \in DOMAIN a_outcome

====
